---- MODULE Spec2Model ----
(***************************************************************************)
(* Model of kympham/jobsearch (src/app.py): the Adzuna search tool         *)
(* _search_jobs, the completion hook callback_function that appends task   *)
(* results to task_output.txt, and the four-task crew that is kicked off.  *)
(*                                                                         *)
(* Text is modelled as a sequence of one-character strings, so that        *)
(* slicing, joining and appending are computed character by character.     *)
(***************************************************************************)
EXTENDS Integers, Sequences, FiniteSets, TLC

VARIABLES
    \* ---- _search_jobs (one call) ----
    env,            \* os.environ: the two credential variables
    tpc,            \* position inside _search_jobs
    response,       \* what the upstream answered to requests.get
    results,        \* jobs_data.get('results', []) being iterated
    tidx,           \* index of the next record of the for loop
    job_listings,   \* the list the loop appends to
    tout,           \* how the call ended: returned string or raised exception
    \* ---- task_output.txt and callback_function ----
    file,           \* content of task_output.txt
    hpc,            \* per writer process: position inside callback_function
    hbuf,           \* per writer process: text handed to write() not yet on disk
    fhOpen,         \* per writer process: the file object is open
    \* ---- the crew run ----
    process,        \* Process.sequential or Process.hierarchical
    depends_on,     \* task -> set of tasks in its context
    status,         \* "defined", "running", "complete", "aborted", "deferror"
    tstate,         \* task -> "pending","executing","frozen","hooking","complete"
    result,         \* task -> its result text
    context,        \* task -> the context resolved when it started
    hookCalls,      \* task -> number of callback invocations
    completed,      \* tasks in completion order
    retval,         \* what kickoff() returned
    file0,          \* content of task_output.txt when the run started
    \* ---- concurrent writers ----
    calls           \* per writer process: results passed to the hook so far

vars == <<env, tpc, response, results, tidx, job_listings, tout, file, hpc, hbuf, fhOpen,
          process, depends_on, status, tstate, result, context, hookCalls,
          completed, retval, file0, calls>>

toolVars == <<env, tpc, response, results, tidx, job_listings, tout>>
sinkVars == <<file, hpc, hbuf, fhOpen>>
runVars  == <<process, depends_on, status, tstate, result, context, hookCalls,
              completed, retval, file0>>

----------------------------------------------------------------------------
(* Bounds of the model *)

\* most records in one upstream response
MaxRecords == 2
\* how many characters past the slice limit the longest description has
MaxExtra == 2
\* most dependency edges of a crew's task graph
MaxEdges == 3
\* hook invocations per writer process
MaxCalls == 2
\* processes appending to task_output.txt
NProcs == 2

(* Program constants *)

\* job['description'][:100]
DescLimit == 100
\* the four Task objects handed to the Crew
NTasks == 4

----------------------------------------------------------------------------
(* Text helpers *)

NL == "\n"

Min(a, b) == IF a <= b THEN a ELSE b

\* Python s[:n]
Slice(s, n) == SubSeq(s, 1, Min(n, Len(s)))

IsPrefix(p, s) == Len(p) <= Len(s) /\ SubSeq(s, 1, Len(p)) = p

\* Python sep.join(parts)
RECURSIVE Join(_, _)
Join(sep, parts) ==
    IF parts = <<>> THEN <<>>
    ELSE IF Len(parts) = 1 THEN parts[1]
    ELSE parts[1] \o sep \o Join(sep, Tail(parts))

----------------------------------------------------------------------------
(* _search_jobs: string literals *)

MissingMsg ==
    <<"M", "i", "s", "s", "i", "n", "g", " ", "A", "D", "Z", "U", "N", "A", "_",
      "A", "P", "P", "_", "I", "D", " ", "o", "r", " ", "A", "D", "Z", "U", "N",
      "A", "_", "A", "P", "I", "_", "K", "E", "Y", " ", "e", "n", "v", "i", "r",
      "o", "n", "m", "e", "n", "t", " ", "v", "a", "r", "i", "a", "b", "l", "e",
      "s", ".">>

NoJobsMsg ==
    <<"N", "o", " ", "j", "o", "b", "s", " ", "f", "o", "u", "n", "d", ".">>

RequestErrorPrefix ==
    <<"R", "e", "q", "u", "e", "s", "t", " ", "e", "r", "r", "o", "r", ":", " ">>

TitleLabel == <<"T", "i", "t", "l", "e", ":", " ">>

CompanyLabel == <<",", " ", "C", "o", "m", "p", "a", "n", "y", ":", " ">>

LocationLabel == <<",", " ", "L", "o", "c", "a", "t", "i", "o", "n", ":", " ">>

DescriptionLabel ==
    <<",", " ", "D", "e", "s", "c", "r", "i", "p", "t", "i", "o", "n", ":", " ">>

Ellipsis == <<".", ".", ".">>

(* _search_jobs: inputs *)

\* os.getenv(name): None when unset, else the (possibly empty) string
Unset == [present |-> FALSE, val |-> <<>>]
EnvValues == {Unset,
              [present |-> TRUE, val |-> <<>>],
              [present |-> TRUE, val |-> <<"k">>]}

\* Python truthiness of os.getenv's value: None and "" are falsy
Truthy(v) == v.present /\ v.val # <<>>

\* description texts: length n, characters cycling through a small alphabet
DescChars == <<"a", "b", ".">>
DescOfLen(n) == [i \in 1..n |-> DescChars[(i % 3) + 1]]
DescLens == {0, 1, DescLimit - 1} \cup (DescLimit..(DescLimit + MaxExtra))
Descriptions == {DescOfLen(n) : n \in DescLens} \cup {<<"x", NL, "y">>}

Titles == {<<"B", "A">>, <<"P", NL, "M">>}
CompanyName == <<"C", "o">>
LocationName == <<"N", "Y">>

\* result records as the upstream sends them when it follows its interface
GoodRecords ==
    {[title |-> t, company |-> [display_name |-> CompanyName],
      location |-> [display_name |-> LocationName], description |-> d] :
        t \in Titles, d \in Descriptions}

\* result records that miss a key the loop reads
BadRecords ==
    {[company |-> [display_name |-> CompanyName],
      location |-> [display_name |-> LocationName], description |-> <<"d">>],
     [title |-> <<"B", "A">>,
      location |-> [display_name |-> LocationName], description |-> <<"d">>],
     [title |-> <<"B", "A">>, company |-> [name |-> CompanyName],
      location |-> [display_name |-> LocationName], description |-> <<"d">>],
     [title |-> <<"B", "A">>, company |-> [display_name |-> CompanyName],
      description |-> <<"d">>],
     [title |-> <<"B", "A">>, company |-> [display_name |-> CompanyName],
      location |-> [display_name |-> LocationName]]}

Records == GoodRecords \cup BadRecords

RecordLists == UNION {[1..n -> Records] : n \in 0..MaxRecords}

\* what requests.get / raise_for_status / response.json() can give
\*   transport : requests.get raises a RequestException (no response)
\*   status    : a response whose status raise_for_status rejects (4xx, 5xx)
\*   notjson   : a 2xx response whose body is not JSON
\*   notobject : a 2xx JSON body that is not an object (no .get)
\*   noresults : a 2xx JSON object without the 'results' key
\*   nullresults : a 2xx JSON object whose 'results' is null
\*   results   : a 2xx JSON object with a 'results' array
Responses ==
    {[kind |-> k, recs |-> <<>>] :
        k \in {"transport", "status", "notjson", "notobject", "noresults",
               "nullresults"}}
    \cup {[kind |-> "results", recs |-> rs] : rs \in RecordLists}

\* str(e) of the RequestException caught at line 36
ErrorDetails(kind) ==
    CASE kind = "transport" -> <<"c", "o", "n", "n">>
      [] kind = "status"    -> <<"4", "0", "4">>
      [] OTHER              -> <<"j", "s", "o", "n">>

(* _search_jobs: lines 15-37 *)

NoOutcome == [kind |-> "none", val |-> <<>>, exc |-> ""]
NoResponse == [kind |-> "none", recs |-> <<>>]
Returned(s) == [kind |-> "returned", val |-> s, exc |-> ""]
Raised(e) == [kind |-> "raised", val |-> <<>>, exc |-> e]

\* the keys line 33 subscripts exist
HasKeys(job) ==
    /\ {"title", "company", "location", "description"} \subseteq DOMAIN job
    /\ "display_name" \in DOMAIN job.company
    /\ "display_name" \in DOMAIN job.location

\* job['description'][:100]
TruncateOff(d) == Slice(d, DescLimit + 1)
Truncate(d) == Slice(d, DescLimit)

\* the f-string of line 33
JobDetails(job) ==
    TitleLabel \o job.title \o CompanyLabel \o job.company.display_name
    \o LocationLabel \o job.location.display_name
    \o DescriptionLabel \o Truncate(job.description) \o Ellipsis

\* '\n'.join(job_listings) or "No jobs found."
JoinListings(listings) == Join(<<NL>>, listings)

FinalText(listings) ==
    IF JoinListings(listings) = <<>> THEN NoJobsMsg ELSE JoinListings(listings)

\* lines 17-20
ToolCheckEnv ==
    /\ tpc = "start"
    /\ IF ~Truthy(env.app_id) \/ ~Truthy(env.api_key)
       THEN /\ tout' = Returned(MissingMsg)
            /\ tpc' = "done"
       ELSE /\ tpc' = "request"
            /\ UNCHANGED tout
    /\ UNCHANGED <<env, response, results, tidx, job_listings>>
    /\ UNCHANGED <<sinkVars, runVars, calls>>

\* lines 27-32 and the handler of lines 36-37
ToolRequest ==
    /\ tpc = "request"
    /\ \E resp \in Responses :
         /\ response' = resp
         /\ CASE resp.kind \in {"transport", "status", "notjson"} ->
                \* RequestException (requests' JSONDecodeError is one): caught
                /\ tout' = Returned(RequestErrorPrefix \o ErrorDetails(resp.kind))
                /\ tpc' = "done"
                /\ UNCHANGED <<results, tidx, job_listings>>
           [] resp.kind = "notobject" ->
                \* jobs_data.get: AttributeError, not a RequestException
                /\ tout' = Raised("AttributeError")
                /\ tpc' = "done"
                /\ UNCHANGED <<results, tidx, job_listings>>
           [] resp.kind = "nullresults" ->
                \* for job in None: TypeError
                /\ tout' = Raised("TypeError")
                /\ tpc' = "done"
                /\ UNCHANGED <<results, tidx, job_listings>>
           [] OTHER ->
                /\ results' = resp.recs
                /\ tidx' = 1
                /\ job_listings' = <<>>
                /\ tpc' = "loop"
                /\ UNCHANGED tout
    /\ UNCHANGED env
    /\ UNCHANGED <<sinkVars, runVars, calls>>

\* one iteration of the for loop, lines 32-34
ToolIterate ==
    /\ tpc = "loop"
    /\ tidx <= Len(results)
    /\ IF HasKeys(results[tidx])
       THEN /\ job_listings' = Append(job_listings, JobDetails(results[tidx]))
            /\ tidx' = tidx + 1
            /\ UNCHANGED <<tpc, tout>>
       ELSE \* job['title'] and the like: KeyError, not a RequestException
            /\ tout' = Raised("KeyError")
            /\ tpc' = "done"
            /\ UNCHANGED <<job_listings, tidx>>
    /\ UNCHANGED <<env, response, results>>
    /\ UNCHANGED <<sinkVars, runVars, calls>>

\* line 35
ToolReturn ==
    /\ tpc = "loop"
    /\ tidx > Len(results)
    /\ tout' = Returned(FinalText(job_listings))
    /\ tpc' = "done"
    /\ UNCHANGED <<env, response, results, tidx, job_listings>>
    /\ UNCHANGED <<sinkVars, runVars, calls>>

----------------------------------------------------------------------------
(* callback_function: lines 47-50, and task_output.txt *)

Procs == 1..NProcs

\* f"{output.result}\n\n"
BlockOneNewline(r) == r \o <<NL>>
Block(r) == r \o <<NL, NL>>

\* what open(..., "a") leaves of the content the file had
OpenedTruncated(f) == <<>>
Opened(f) == f

\* the caller passes a TaskOutput to callback_function
HookInvoke(p, r) ==
    /\ hpc[p] = "idle"
    /\ hpc' = [hpc EXCEPT ![p] = "call"]
    /\ hbuf' = [hbuf EXCEPT ![p] = Block(r)]
    /\ UNCHANGED <<file, fhOpen>>

\* line 48: open("task_output.txt", "a") succeeds
HookOpen(p) ==
    /\ hpc[p] = "call"
    /\ hpc' = [hpc EXCEPT ![p] = "open"]
    /\ fhOpen' = [fhOpen EXCEPT ![p] = TRUE]
    /\ file' = Opened(file)
    /\ UNCHANGED hbuf

\* line 49: file.write(...); the text reaches the file in one append or, when
\* the operating system accepts only part of it, in several
HookWrite(p) ==
    /\ hpc[p] = "open"
    /\ hbuf[p] # <<>>
    /\ \E k \in 1..Len(hbuf[p]) :
         /\ file' = file \o SubSeq(hbuf[p], 1, k)
         /\ hbuf' = [hbuf EXCEPT ![p] = SubSeq(hbuf[p], k + 1, Len(hbuf[p]))]
    /\ UNCHANGED <<hpc, fhOpen>>

\* leaving the with block closes the file; line 50 prints; the hook returns
HookClose(p) ==
    /\ hpc[p] = "open"
    /\ hbuf[p] = <<>>
    /\ hpc' = [hpc EXCEPT ![p] = "returned"]
    /\ fhOpen' = [fhOpen EXCEPT ![p] = FALSE]
    /\ UNCHANGED <<file, hbuf>>

\* open or write raises OSError: the with block closes the file (if it was
\* opened) and the exception leaves callback_function, which has no handler
HookFail(p) ==
    /\ hpc[p] \in {"call", "open"}
    /\ hpc' = [hpc EXCEPT ![p] = "raised"]
    /\ fhOpen' = [fhOpen EXCEPT ![p] = FALSE]
    /\ hbuf' = [hbuf EXCEPT ![p] = <<>>]
    /\ UNCHANGED file

----------------------------------------------------------------------------
(* The crew: lines 91-133 *)

Tasks == 1..NTasks

JobSearchTask == 1
SkillsHighlightingTask == 2
InterviewPreparationTask == 3
CareerAdvisoryTask == 4

\* tasks=[job_search_task, skills_highlighting_task, ...] of line 126
DefinitionOrderSwapped ==
    <<JobSearchTask, SkillsHighlightingTask, CareerAdvisoryTask,
      InterviewPreparationTask>>
DefinitionOrder ==
    <<JobSearchTask, SkillsHighlightingTask, InterviewPreparationTask,
      CareerAdvisoryTask>>

\* context=[job_search_task] of lines 103, 111 and 119
ConfiguredDepsSkillsFree ==
    [t \in Tasks |->
        IF t \in {InterviewPreparationTask, CareerAdvisoryTask}
        THEN {JobSearchTask} ELSE {}]
ConfiguredDeps ==
    [t \in Tasks |-> IF t = JobSearchTask THEN {} ELSE {JobSearchTask}]

\* process=Process.hierarchical of line 127
ConfiguredProcess == "hierarchical"

\* callback=callback_function of lines 96, 104, 112 and 120
HasCallbackButFirst(t) == t # JobSearchTask
HasCallback(t) == TRUE

\* the process that runs the crew is writer 1 of task_output.txt
RunProc == 1

\* what the reasoning service may answer for a task: a text that starts with
\* a letter of the task and goes on with free text
TaskLetter == <<"J", "S", "I", "C">>
Tails == {<<>>, <<"x">>}
TaskResults(t) == {<<TaskLetter[t]>> \o tail : tail \in Tails}

\* dependency graphs a crew may be defined with
EdgeCount(d) == Cardinality({e \in Tasks \X Tasks : e[1] \in d[e[2]]})
Graphs ==
    {d \in [Tasks -> SUBSET Tasks] :
        (\A t \in Tasks : t \notin d[t]) /\ EdgeCount(d) <= MaxEdges}

Pos(order, t) == CHOOSE i \in 1..Len(order) : order[i] = t

Orders == {o \in [1..NTasks -> Tasks] : \A t \in Tasks : \E i \in 1..NTasks : o[i] = t}

Topological(order, d) ==
    \A t \in Tasks : \A u \in d[t] : Pos(order, u) < Pos(order, t)

Acyclic(d) == \E o \in Orders : Topological(o, d)

IsFrozen(s) == s \in {"frozen", "hooking", "complete"}

\* every entry of depends_on has completed
Eligible(t) == \A u \in depends_on[t] : tstate[u] = "complete"

NoneActive == \A t \in Tasks : tstate[t] \in {"pending", "complete"}

\* sequential: the first task of the definition order not yet started
NextInOrder(t) ==
    \A u \in Tasks : Pos(DefinitionOrder, u) < Pos(DefinitionOrder, t)
                        => tstate[u] = "complete"

\* the frozen results of depends_on, each tagged by its task, in order
RECURSIVE ContextOf(_, _)
ContextOf(t, i) ==
    IF i > NTasks THEN <<>>
    ELSE (IF i \in depends_on[t] THEN <<<<i, result[i]>>>> ELSE <<>>)
         \o ContextOf(t, i + 1)

\* building the crew: a cycle, or a definition order that is not topological
\* under the sequential process, is a definition-time error
Construct ==
    /\ status = "defined"
    /\ status' = IF /\ Acyclic(depends_on)
                    /\ (process = "sequential"
                          => Topological(DefinitionOrder, depends_on))
                 THEN "running" ELSE "deferror"
    /\ UNCHANGED <<process, depends_on, tstate, result, context, hookCalls,
                   completed, retval, file0>>
    /\ UNCHANGED <<sinkVars, toolVars, calls>>

\* select the next eligible task and resolve its context
StartTask(t) ==
    /\ status = "running"
    /\ tstate[t] = "pending"
    /\ NoneActive
    /\ Eligible(t)
    /\ process = "sequential" => NextInOrder(t)
    /\ tstate' = [tstate EXCEPT ![t] = "executing"]
    /\ context' = [context EXCEPT ![t] = ContextOf(t, 1)]
    /\ UNCHANGED <<process, depends_on, status, result, hookCalls, completed,
                   retval, file0>>
    /\ UNCHANGED <<sinkVars, toolVars, calls>>

\* the worker returns its text: the result is frozen on the task
Freeze(t) ==
    /\ status = "running"
    /\ tstate[t] = "executing"
    /\ \E r \in TaskResults(t) : result' = [result EXCEPT ![t] = r]
    /\ tstate' = [tstate EXCEPT ![t] = "frozen"]
    /\ UNCHANGED <<process, depends_on, status, context, hookCalls, completed,
                   retval, file0>>
    /\ UNCHANGED <<sinkVars, toolVars, calls>>

\* the reasoning service fails unrecoverably: the run aborts
ReasoningFails(t) ==
    /\ status = "running"
    /\ tstate[t] = "executing"
    /\ status' = "aborted"
    /\ UNCHANGED <<process, depends_on, tstate, result, context, hookCalls,
                   completed, retval, file0>>
    /\ UNCHANGED <<sinkVars, toolVars, calls>>

\* the task's callback is called with its output
InvokeHook(t) ==
    /\ status = "running"
    /\ tstate[t] = "frozen"
    /\ HasCallback(t)
    /\ HookInvoke(RunProc, result[t])
    /\ tstate' = [tstate EXCEPT ![t] = "hooking"]
    /\ hookCalls' = [hookCalls EXCEPT ![t] = @ + 1]
    /\ UNCHANGED <<process, depends_on, status, result, context, completed,
                   retval, file0>>
    /\ UNCHANGED <<toolVars, calls>>

\* callback_function running inside the crew's process
RunHookOpen ==
    status = "running" /\ HookOpen(RunProc) /\ UNCHANGED <<runVars, toolVars, calls>>

RunHookWrite ==
    status = "running" /\ HookWrite(RunProc) /\ UNCHANGED <<runVars, toolVars, calls>>

RunHookClose ==
    status = "running" /\ HookClose(RunProc) /\ UNCHANGED <<runVars, toolVars, calls>>

RunHookFail ==
    status = "running" /\ HookFail(RunProc) /\ UNCHANGED <<runVars, toolVars, calls>>

\* the task is marked complete; after the last one kickoff returns the result
\* of the last task of the definition order (line 132)
MarkComplete(t) ==
    /\ status = "running"
    /\ \/ tstate[t] = "hooking" /\ hpc[RunProc] = "returned"
       \/ tstate[t] = "frozen" /\ ~HasCallback(t)
    /\ tstate' = [tstate EXCEPT ![t] = "complete"]
    /\ completed' = Append(completed, t)
    /\ hpc' = [hpc EXCEPT ![RunProc] = "idle"]
    /\ IF \A u \in Tasks \ {t} : tstate[u] = "complete"
       THEN /\ status' = "complete"
            /\ retval' = result[DefinitionOrder[NTasks]]
       ELSE UNCHANGED <<status, retval>>
    /\ UNCHANGED <<process, depends_on, result, context, hookCalls, file0>>
    /\ UNCHANGED <<file, hbuf, fhOpen, toolVars, calls>>

\* the OSError of the hook leaves Task, Crew.kickoff and line 132, none of
\* which handles it
HookErrorPropagates ==
    /\ status = "running"
    /\ hpc[RunProc] = "raised"
    /\ status' = "aborted"
    /\ UNCHANGED <<process, depends_on, tstate, result, context, hookCalls,
                   completed, retval, file0>>
    /\ UNCHANGED <<sinkVars, toolVars, calls>>

----------------------------------------------------------------------------
(* Specifications *)

IdleSink ==
    /\ hpc = [p \in Procs |-> "idle"]
    /\ hbuf = [p \in Procs |-> <<>>]
    /\ fhOpen = [p \in Procs |-> FALSE]

IdleTool ==
    /\ env = [app_id |-> Unset, api_key |-> Unset]
    /\ tpc = "off"
    /\ response = NoResponse
    /\ results = <<>>
    /\ tidx = 0
    /\ job_listings = <<>>
    /\ tout = NoOutcome

IdleRun ==
    /\ process = ConfiguredProcess
    /\ depends_on = ConfiguredDeps
    /\ status = "off"
    /\ tstate = [t \in Tasks |-> "pending"]
    /\ result = [t \in Tasks |-> <<>>]
    /\ context = [t \in Tasks |-> <<>>]
    /\ hookCalls = [t \in Tasks |-> 0]
    /\ completed = <<>>
    /\ retval = <<>>

\* task_output.txt outlives the process: it may hold earlier runs' blocks
InitialFiles == {<<>>, <<"o", NL, NL>>}

(* one call of _search_jobs *)
ToolInit ==
    /\ env \in [app_id : EnvValues, api_key : EnvValues]
    /\ tpc = "start"
    /\ response = NoResponse
    /\ results = <<>>
    /\ tidx = 0
    /\ job_listings = <<>>
    /\ tout = NoOutcome
    /\ IdleSink /\ IdleRun
    /\ file = <<>> /\ file0 = <<>>
    /\ calls = [p \in Procs |-> <<>>]

ToolNext == ToolCheckEnv \/ ToolRequest \/ ToolIterate \/ ToolReturn

SpecTool == ToolInit /\ [][ToolNext]_vars

(* one run of the crew *)
Init ==
    /\ IdleTool /\ IdleSink
    /\ process \in {"sequential", "hierarchical"}
    /\ depends_on \in Graphs
    /\ status = "defined"
    /\ tstate = [t \in Tasks |-> "pending"]
    /\ result = [t \in Tasks |-> <<>>]
    /\ context = [t \in Tasks |-> <<>>]
    /\ hookCalls = [t \in Tasks |-> 0]
    /\ completed = <<>>
    /\ retval = <<>>
    /\ file0 \in InitialFiles
    /\ file = file0
    /\ calls = [p \in Procs |-> <<>>]

Next ==
    \/ Construct
    \/ \E t \in Tasks : StartTask(t)
    \/ \E t \in Tasks : Freeze(t)
    \/ \E t \in Tasks : ReasoningFails(t)
    \/ \E t \in Tasks : InvokeHook(t)
    \/ RunHookOpen
    \/ RunHookWrite
    \/ RunHookClose
    \/ RunHookFail
    \/ \E t \in Tasks : MarkComplete(t)
    \/ HookErrorPropagates

Spec == Init /\ [][Next]_vars

(* writer processes: each passes results to callback_function *)
ReplayResults == {<<"r">>, <<"s", "t">>}

WriterInit ==
    /\ IdleTool /\ IdleSink /\ IdleRun
    /\ file0 \in InitialFiles
    /\ file = file0
    /\ calls = [p \in Procs |-> <<>>]

\* a task of the run of process p completes with result r
WriterInvoke(p) ==
    /\ Len(calls[p]) < MaxCalls
    /\ \E r \in ReplayResults :
         /\ HookInvoke(p, r)
         /\ calls' = [calls EXCEPT ![p] = Append(@, r)]
    /\ UNCHANGED <<toolVars, runVars>>

WriterOpen(p) == HookOpen(p) /\ UNCHANGED <<toolVars, runVars, calls>>

WriterWrite(p) == HookWrite(p) /\ UNCHANGED <<toolVars, runVars, calls>>

WriterClose(p) == HookClose(p) /\ UNCHANGED <<toolVars, runVars, calls>>

WriterFail(p) == HookFail(p) /\ UNCHANGED <<toolVars, runVars, calls>>

\* the hook returned: the run of process p goes on
WriterResume(p) ==
    /\ hpc[p] = "returned"
    /\ hpc' = [hpc EXCEPT ![p] = "idle"]
    /\ UNCHANGED <<file, hbuf, fhOpen, toolVars, runVars, calls>>

\* one process: the hook is called again and again
SinkNext ==
    \/ WriterInvoke(RunProc)
    \/ WriterOpen(RunProc)
    \/ WriterWrite(RunProc)
    \/ WriterClose(RunProc)
    \/ WriterFail(RunProc)
    \/ WriterResume(RunProc)

SpecSink == WriterInit /\ [][SinkNext]_vars

\* several processes, nothing ordering their appends
ConcNext ==
    \/ \E p \in Procs : WriterInvoke(p)
    \/ \E p \in Procs : WriterOpen(p)
    \/ \E p \in Procs : WriterWrite(p)
    \/ \E p \in Procs : WriterClose(p)
    \/ \E p \in Procs : WriterFail(p)
    \/ \E p \in Procs : WriterResume(p)

SpecConc == WriterInit /\ [][ConcNext]_vars

----------------------------------------------------------------------------
(* Properties of _search_jobs, under SpecTool *)

\* the lines of a text: the pieces between its newline characters
RECURSIVE SplitLines(_)
SplitLines(s) ==
    IF \A i \in 1..Len(s) : s[i] # NL THEN <<s>>
    ELSE LET k == CHOOSE i \in 1..Len(s) :
                     s[i] = NL /\ \A j \in 1..(i - 1) : s[j] # NL
         IN  <<SubSeq(s, 1, k - 1)>> \o SplitLines(SubSeq(s, k + 1, Len(s)))

CredentialsMissing == ~env.app_id.present \/ ~env.api_key.present

\* the one-line summary the interface describes for record r, with the
\* description cut at DescLimit characters
ExpectedSummary(r) ==
    TitleLabel \o r.title \o CompanyLabel \o r.company.display_name
    \o LocationLabel \o r.location.display_name \o DescriptionLabel
    \o SubSeq(r.description, 1, Min(DescLimit, Len(r.description)))
    \o Ellipsis

\* C2: the search tool never raises: whatever the credentials and whatever the
\* upstream answers (transport failure, error status, malformed body, records
\* missing fields, no records, well-formed records), the call ends by
\* returning a string.
C2_NeverRaises == tout.kind # "raised"

\* C5: the returned string is determined by case: a credential variable absent
\* gives exactly the missing-credentials message; a transport failure or an
\* error status gives "Request error: <details>"; zero records give exactly
\* "No jobs found."; n >= 1 records give exactly n one-line summaries, in
\* response order, joined by single newlines.
C5_ResultByCase ==
    tpc = "done" =>
      /\ CredentialsMissing => tout = Returned(MissingMsg)
      /\ response.kind \in {"transport", "status"} =>
            /\ tout.kind = "returned"
            /\ IsPrefix(RequestErrorPrefix, tout.val)
      /\ response.kind \in {"results", "noresults"} /\ response.recs = <<>> =>
            tout = Returned(NoJobsMsg)
      /\ response.kind = "results" /\ response.recs # <<>> =>
            /\ tout.kind = "returned"
            /\ Len(SplitLines(tout.val)) = Len(response.recs)
            /\ \A i \in 1..Len(response.recs) :
                 SplitLines(tout.val)[i] = ExpectedSummary(response.recs[i])

\* C8: in every summary the tool produces, the description field is the first
\* min(100, length) characters of the record's description followed by "...",
\* and nothing more of the description: the summary ends with
\* ", Description: " + that prefix + "..." and has no other characters than
\* the labels, the three other fields, the prefix and the ellipsis.
C8_DescriptionTruncated ==
    \A i \in 1..Len(job_listings) :
        LET s == job_listings[i]
            r == results[i]
            n == IF Len(r.description) < DescLimit
                 THEN Len(r.description) ELSE DescLimit
        IN  /\ Len(s) = Len(TitleLabel) + Len(r.title) + Len(CompanyLabel)
                        + Len(r.company.display_name) + Len(LocationLabel)
                        + Len(r.location.display_name) + Len(DescriptionLabel)
                        + n + 3
            /\ SubSeq(s, Len(s) - 2, Len(s)) = <<".", ".", ".">>
            /\ SubSeq(s, Len(s) - 2 - n, Len(s) - 3) = SubSeq(r.description, 1, n)
            /\ SubSeq(s, Len(s) - 2 - n - Len(DescriptionLabel), Len(s) - 3 - n)
                  = DescriptionLabel

\* a summary was produced from a description longer than the limit, and one
\* from a shorter description
C8_Witness ==
    /\ tpc = "done"
    /\ tout.kind = "returned"
    /\ Len(job_listings) = 2
    /\ Len(results[1].description) > DescLimit
    /\ Len(results[2].description) = 1

----------------------------------------------------------------------------
(* Properties of callback_function, under SpecSink and SpecConc *)

\* the text of n blocks: each result followed by a blank line
RECURSIVE BlocksOf(_)
BlocksOf(rs) ==
    IF rs = <<>> THEN <<>> ELSE Head(rs) \o <<NL, NL>> \o BlocksOf(Tail(rs))

\* C6: the hook is append-only and not deduplicating: every step of an
\* invocation leaves the previous content of the store as a prefix, and once
\* the invocations have returned the store is its initial content followed by
\* one block (the result and a blank line) per invocation, in order, also
\* when the same result is passed twice.
C6_AppendOnly ==
    /\ [](hpc[RunProc] \in {"idle", "returned"}
            => file = file0 \o BlocksOf(calls[RunProc]))
    /\ [][IsPrefix(file, file')]_vars

\* the same result went through the hook twice and the store holds two blocks
C6_Witness ==
    /\ hpc[RunProc] = "idle"
    /\ file0 # <<>>
    /\ calls[RunProc] = <<<<"r">>, <<"r">>>>
    /\ file = file0 \o <<"r", NL, NL, "r", NL, NL>>

\* the orders in which the invocations of the processes may be serialized
RECURSIVE Merges(_)
Merges(cs) ==
    IF \A p \in Procs : cs[p] = <<>> THEN {<<>>}
    ELSE UNION {{<<Head(cs[p])>> \o m :
                    m \in Merges([cs EXCEPT ![p] = Tail(cs[p])])} :
                p \in {q \in Procs : cs[q] # <<>>}}

\* C9: concurrent runs' appends are serialized: when the hooks have returned,
\* the store is a sequence of whole blocks, one per invocation, in some order
\* that keeps each process's own order; no block is cut by another's text.
C9_AppendsSerialized ==
    (\A p \in Procs : hpc[p] = "idle")
        => \E m \in Merges(calls) : file = file0 \o BlocksOf(m)

----------------------------------------------------------------------------
(* Properties of the crew run, under Spec *)

Others == Tasks \ {JobSearchTask}

\* C1: a task starts only after every task of its depends_on has a frozen
\* result (the context it resolved holds exactly those results), whatever the
\* acyclic graph and the process; in the configured pipeline the job-search
\* task has completed before any of the other three starts.  That no order is
\* imposed among those three is what C1_Witness shows: the interview task
\* running while the skills task, defined before it, is still pending.
C1_DependencyOrder ==
    /\ \A t \in Tasks : tstate[t] # "pending" =>
          /\ \A u \in depends_on[t] : IsFrozen(tstate[u])
          /\ {c[1] : c \in {context[t][i] : i \in 1..Len(context[t])}}
                = depends_on[t]
          /\ \A i \in 1..Len(context[t]) :
                context[t][i][2] = result[context[t][i][1]]
    /\ depends_on = ConfiguredDeps =>
          \A t \in Others :
              tstate[t] # "pending" => tstate[JobSearchTask] = "complete"

C1_Witness ==
    /\ depends_on = ConfiguredDeps
    /\ process = ConfiguredProcess
    /\ tstate[JobSearchTask] = "complete"
    /\ tstate[InterviewPreparationTask] = "executing"
    /\ tstate[SkillsHighlightingTask] = "pending"

\* C3: in a full run the hook is invoked exactly once for each task, and when
\* the run ends the store has gained exactly one block per task, in the order
\* in which the tasks completed.
C3_OneBlockPerTask ==
    status = "complete" =>
      /\ \A t \in Tasks : hookCalls[t] = 1
      /\ Len(completed) = NTasks
      /\ {completed[i] : i \in 1..Len(completed)} = Tasks
      /\ file = file0 \o BlocksOf([i \in 1..Len(completed) |-> result[completed[i]]])

C3_Witness ==
    /\ status = "complete"
    /\ depends_on = ConfiguredDeps
    /\ process = ConfiguredProcess
    /\ file0 # <<>>
    /\ Len(file) > Len(file0) + 2 * NTasks

\* C4: a failure of the durable write inside the hook is reported but does
\* not abort the run: the run goes on, the failed task's result is kept and
\* its dependents still get it as context, and the file is closed on every
\* exit path.
C4_PersistenceFailureNonFatal ==
    /\ hpc[RunProc] = "raised" => status # "aborted"
    /\ hpc[RunProc] \in {"idle", "returned", "raised"} => ~fhOpen[RunProc]
    /\ \A t \in Tasks : IsFrozen(tstate[t]) => result[t] \in TaskResults(t)

C10_HookBeforeVisible ==
    /\ \A t \in Tasks : tstate[t] # "pending" =>
          \A u \in depends_on[t] : hookCalls[u] = 1 /\ tstate[u] = "complete"
    /\ \A t \in Tasks : hookCalls[t] > 0 => IsFrozen(tstate[t])
    /\ \A t \in Tasks : tstate[t] = "complete" => hookCalls[t] = 1

C10_Witness ==
    /\ depends_on = ConfiguredDeps
    /\ tstate[SkillsHighlightingTask] = "executing"
    /\ hookCalls[JobSearchTask] = 1
    /\ context[SkillsHighlightingTask] = <<<<JobSearchTask, <<"J", "x">>>>>>

====
